---- MODULE Spec2Model ----
(***************************************************************************)
(* Label propagation of src/utils.py (label_propagation, called by         *)
(* cell_annotator).  One run of label_propagation is modelled as a state   *)
(* machine whose positions are the steps of the function body: the set-up  *)
(* before the loop, and per loop iteration the mask step, the propagate    *)
(* step (np.dot), the renormalize step (np.divide) and the convergence     *)
(* monitor, followed by the assembly of the output columns.                *)
(*                                                                         *)
(* Probabilities are exact rationals.  Because the masked rows hold 1e-6,  *)
(* numerators and denominators outgrow machine integers after a few        *)
(* iterations, so naturals are kept as little-endian limb sequences.       *)
(***************************************************************************)
EXTENDS Integers, Sequences, FiniteSets, TLC

\* ------------------------------------------------------------------------
\* Bounds of the model
\* ------------------------------------------------------------------------

\* largest iteration budget n_iter tried (budgets 0..MaxIter)
MaxIter == 7

\* certainty_threshold is drawn from the multiples of 1/TauDen in
\* -1/TauDen .. (TauDen+1)/TauDen (the two ends are outside [0,1])
TauDen == 2

\* signature scores: column 'Normal' is drawn from 0..MaxScore, 'Tumor' is MaxScore
MaxScore == 1

\* ------------------------------------------------------------------------
\* Exact arithmetic: naturals as limb sequences, rationals as n/d
\* ------------------------------------------------------------------------

\* radix of the limb representation
Base == 1000

Zero == <<>>
One == <<1>>

RECURSIVE BigFromNat(_)
BigFromNat(k) == IF k = 0 THEN <<>> ELSE <<k % Base>> \o BigFromNat(k \div Base)

Limb(a, k) == IF k <= Len(a) THEN a[k] ELSE 0

\* carry propagation over a sequence of non-negative limb sums
RECURSIVE Carry(_, _, _)
Carry(raw, k, c) ==
    IF k > Len(raw)
    THEN IF c = 0 THEN <<>> ELSE <<c % Base>> \o Carry(raw, k, c \div Base)
    ELSE LET s == raw[k] + c IN <<s % Base>> \o Carry(raw, k + 1, s \div Base)

Max2(x, y) == IF x >= y THEN x ELSE y
Min2(x, y) == IF x <= y THEN x ELSE y

BigAdd(a, b) ==
    IF a = Zero THEN b
    ELSE IF b = Zero THEN a
    ELSE Carry([k \in 1..Max2(Len(a), Len(b)) |-> Limb(a, k) + Limb(b, k)], 1, 0)

RECURSIVE Conv(_, _, _, _, _)
Conv(a, b, k, j, hi) ==
    IF j > hi THEN 0 ELSE a[j] * b[k + 1 - j] + Conv(a, b, k, j + 1, hi)

BigMul(a, b) ==
    IF a = Zero \/ b = Zero THEN Zero
    ELSE IF a = One THEN b
    ELSE IF b = One THEN a
    ELSE Carry([k \in 1..(Len(a) + Len(b) - 1) |->
                   Conv(a, b, k, Max2(1, k + 1 - Len(b)), Min2(k, Len(a)))], 1, 0)

RECURSIVE BigLessFrom(_, _, _)
BigLessFrom(a, b, k) ==
    IF k = 0 THEN FALSE
    ELSE IF a[k] # b[k] THEN a[k] < b[k]
    ELSE BigLessFrom(a, b, k - 1)

BigLess(a, b) ==
    IF Len(a) # Len(b) THEN Len(a) < Len(b) ELSE BigLessFrom(a, b, Len(a))

\* a rational is [n |-> numerator, d |-> denominator]; a zero denominator
\* is the undefined value a float division by zero leaves (nan)
Rat(n, d) == [n |-> BigFromNat(n), d |-> BigFromNat(d)]
NaN == [n |-> Zero, d |-> Zero]
IsNaN(r) == r.d = Zero

RatAdd(r, s) ==
    IF IsNaN(r) \/ IsNaN(s) THEN NaN
    ELSE IF r.d = s.d THEN [n |-> BigAdd(r.n, s.n), d |-> r.d]
    ELSE [n |-> BigAdd(BigMul(r.n, s.d), BigMul(s.n, r.d)), d |-> BigMul(r.d, s.d)]

\* r / s, the quotient inside np.divide (0 / 0 is nan)
RatDiv(r, s) ==
    IF IsNaN(r) \/ IsNaN(s) \/ s.n = Zero THEN NaN
    ELSE IF r.d = s.d THEN [n |-> r.n, d |-> s.n]
    ELSE [n |-> BigMul(r.n, s.d), d |-> BigMul(r.d, s.n)]

\* nan compares unequal to everything, itself included
RatEq(r, s) ==
    /\ ~IsNaN(r)
    /\ ~IsNaN(s)
    /\ IF r.d = s.d THEN r.n = s.n ELSE BigMul(r.n, s.d) = BigMul(s.n, r.d)

RatLess(r, s) ==
    /\ ~IsNaN(r)
    /\ ~IsNaN(s)
    /\ IF r.d = s.d THEN BigLess(r.n, s.n)
       ELSE BigLess(BigMul(r.n, s.d), BigMul(s.n, r.d))

RatLeq(r, s) == RatLess(r, s) \/ RatEq(r, s)

RatOne == [n |-> One, d |-> One]
RatZero == [n |-> Zero, d |-> One]

\* ------------------------------------------------------------------------
\* Inputs of a run
\* ------------------------------------------------------------------------

\* similarity graphs (dense adjacency matrices, row r = weights of cell r)
Graph1 == << <<1>> >>
Pair2 == << <<1, 1>>, <<0, 2>> >>
Identity3 == << <<1, 0, 0>>, <<0, 1, 0>>, <<0, 0, 1>> >>
Swap3 == << <<1, 0, 0>>, <<0, 0, 1>>, <<0, 1, 0>> >>
Full3 == << <<1, 1, 1>>, <<1, 1, 1>>, <<1, 1, 1>> >>
Chain3 == << <<2, 1, 0>>, <<1, 0, 1>>, <<0, 1, 2>> >>
Isolated3 == << <<1, 1, 0>>, <<0, 0, 0>>, <<0, 1, 1>> >>

Graphs == {Graph1, Pair2, Identity3, Swap3, Full3, Chain3, Isolated3}

\* classifier output rows (predict_proba): k/ProbaDen, 1 - k/ProbaDen
ProbaDen == 4
LRRows == {<<Rat(k, ProbaDen), Rat(ProbaDen - k, ProbaDen)>> : k \in {1, ProbaDen - 1}}

\* signature score pairs (Normal, Tumor) of a cell
ScorePairs == {<<a, MaxScore>> : a \in 0..MaxScore}

Labels == <<"Normal", "Tumor">>

VARIABLES
    connectivities,        \* the adjacency matrix passed to label_propagation
    LR_proba,              \* columns LR_proba_Normal, LR_proba_Tumor of results
    score,                 \* columns Normal, Tumor of results (signature scores)
    n_iter,                \* iteration budget
    certainty_threshold,   \* numerator of tau over TauDen
    pc,                    \* position in label_propagation
    i,                     \* loop index
    proba_tier_0,          \* the working probability matrix
    lp_step_mtx,           \* result of np.dot, then of np.divide
    certain,               \* column 'certain' (<<>> while absent)
    certain_i,             \* columns certain0, certain1, ... in order of creation
    pre,                   \* previous assignment (<<>> while unbound)
    hist,                  \* the value of `current` of every iteration so far
    warnings,              \* number of non-convergence warnings printed
    broke,                 \* the loop was left by break
    out_prediction,        \* column LR_with_label_propagation_tier_0_prediction
    out_proba              \* columns LR_with_label_propagation_proba_*

vars == <<connectivities, LR_proba, score, n_iter, certainty_threshold, pc, i,
          proba_tier_0, lp_step_mtx, certain, certain_i, pre, hist, warnings,
          broke, out_prediction, out_proba>>

inputs == <<connectivities, LR_proba, score, n_iter, certainty_threshold>>

NCells == Len(connectivities)
Cells == 1..NCells

\* ------------------------------------------------------------------------
\* Confidence estimator: absdif, quantile, threshold schedule
\* ------------------------------------------------------------------------

Abs(x) == IF x < 0 THEN -x ELSE x

absdif == [c \in Cells |-> Abs(score[c][1] - score[c][2])]

\* k-th smallest confidence score, k = 0 .. NCells-1
Kth(k) ==
    CHOOSE v \in {absdif[c] : c \in Cells} :
        /\ Cardinality({c \in Cells : absdif[c] < v}) <= k
        /\ k < Cardinality({c \in Cells : absdif[c] <= v})

\* Series.quantile rejects q outside [0, 1]
ValidQuantile(q) == 0 <= q[1] /\ q[1] <= q[2]

\* q[2] * absdif.quantile(q), q = q[1]/q[2]: linear interpolation between
\* the two order statistics around position q * (NCells - 1)
QuantileScaled(q) ==
    LET h == q[1] * (NCells - 1)
        lo == h \div q[2]
        rem == h % q[2]
        vlo == Kth(lo)
        vhi == Kth(Min2(lo + 1, NCells - 1))
    IN  vlo * q[2] + rem * (vhi - vlo)

\* as Above, with >= in place of >
AboveOrEqual(c, q) == absdif[c] * q[2] >= QuantileScaled(q)

\* absdif > absdif.quantile(q)
Above(c, q) == absdif[c] * q[2] > QuantileScaled(q)

CertainMask(q) == [c \in Cells |-> Above(c, q)]

\* as Linspace, with the end points exchanged: np.linspace(0, 1, n)[k]
LinspaceUp(n, k) == IF n = 1 THEN <<0, 1>> ELSE <<k, n - 1>>

\* np.linspace(1, 0, n)[k] as a fraction
Linspace(n, k) == IF n = 1 THEN <<1, 1>> ELSE <<n - 1 - k, n - 1>>

\* certainty_threshold * np.linspace(1, 0, n_iter)[k]
ThresholdPct(k) ==
    <<certainty_threshold * Linspace(n_iter, k)[1], TauDen * Linspace(n_iter, k)[2]>>

\* ------------------------------------------------------------------------
\* Diffusion engine: mask, propagate, renormalize
\* ------------------------------------------------------------------------

EpsDen == 1000000
Eps == Rat(1, EpsDen)
EpsRow == <<Eps, Eps>>

\* as MaskRows, the trusted rows being taken from the classifier output
MaskRowsFresh(m, mask) == [c \in Cells |-> IF mask[c] THEN LR_proba[c] ELSE EpsRow]

\* proba_tier_0.loc[results[f'certain{i}'] == False] = 0.000001
MaskRows(m, mask) == [c \in Cells |-> IF mask[c] THEN m[c] ELSE EpsRow]

\* product of a finite set of naturals
RECURSIVE BigProd(_)
BigProd(S) ==
    IF S = {} THEN One
    ELSE LET x == CHOOSE y \in S : TRUE IN BigMul(x, BigProd(S \ {x}))

\* the cells whose weight in row r is not zero
Neighbours(r) == {j \in Cells : connectivities[r][j] # 0}

\* sum over j >= k of connectivities[r][j] * m[j][col], as a numerator
\* over the product of the distinct denominators dens of the terms
RECURSIVE DotFrom(_, _, _, _, _)
DotFrom(m, r, col, dens, k) ==
    IF k > NCells THEN Zero
    ELSE IF connectivities[r][k] = 0 THEN DotFrom(m, r, col, dens, k + 1)
    ELSE BigAdd(BigMul(BigFromNat(connectivities[r][k]),
                       BigMul(m[k][col].n, BigProd(dens \ {m[k][col].d}))),
                DotFrom(m, r, col, dens, k + 1))

\* entry (r, col) of the product; a nan anywhere in the column makes the
\* entry nan, whatever its weight (0 * nan is nan)
DotEntry(m, r, col) ==
    IF \E j \in Cells : IsNaN(m[j][col]) THEN NaN
    ELSE LET dens == {m[j][col].d : j \in Neighbours(r)}
         IN  [n |-> DotFrom(m, r, col, dens, 1), d |-> BigProd(dens)]

\* np.dot(connectivities, proba_tier_0.values)
Dot(m) == [r \in Cells |-> <<DotEntry(m, r, 1), DotEntry(m, r, 2)>>]

\* lp_step_mtx.sum(axis=1)
RowSums(m) == [r \in Cells |-> RatAdd(m[r][1], m[r][2])]

RECURSIVE ColSumFrom(_, _, _)
ColSumFrom(m, col, r) ==
    IF r > NCells THEN RatZero ELSE RatAdd(m[r][col], ColSumFrom(m, col, r + 1))

\* as RowDivide, summing along the other axis (sum(axis=0)): every entry
\* is divided by the total of its column
RowDivideAxis0(m) ==
    [r \in Cells |-> <<RatDiv(m[r][1], ColSumFrom(m, 1, 1)),
                       RatDiv(m[r][2], ColSumFrom(m, 2, 1))>>]

\* np.divide(lp_step_mtx, lp_step_mtx.sum(axis=1))
RowDivide(m) ==
    [r \in Cells |-> <<RatDiv(m[r][1], RowSums(m)[r]), RatDiv(m[r][2], RowSums(m)[r])>>]

\* ------------------------------------------------------------------------
\* Convergence monitor
\* ------------------------------------------------------------------------

RowIsNaN(row) == IsNaN(row[1]) /\ IsNaN(row[2])

\* idxmax(axis=1): first column holding the row maximum; an all-nan row
\* has no maximum
IdxMaxRow(row) ==
    IF RowIsNaN(row) THEN "NaN"
    ELSE IF RatLess(row[1], row[2]) THEN Labels[2] ELSE Labels[1]

IdxMax(m) == [c \in Cells |-> IdxMaxRow(m[c])]

HasNaNRow(m) == \E c \in Cells : RowIsNaN(m[c])

\* (current != pre).sum(); a missing label differs from everything
Changed(cur, prev) ==
    Cardinality({c \in Cells : cur[c] # prev[c] \/ cur[c] = "NaN" \/ prev[c] = "NaN"})

DriftScale == 1000

\* ((current != pre).sum() / current.size) < 0.001
DriftBelow(cur, prev) == Changed(cur, prev) * DriftScale < NCells

\* as MayStop, one iteration earlier
MayStopFrom4(k) == ~(k < 4)

\* `not i < 5`
MayStop(k) == ~(k < 5)

\* ------------------------------------------------------------------------
\* Actions
\* ------------------------------------------------------------------------

Init ==
    /\ connectivities \in Graphs
    /\ LR_proba \in [1..Len(connectivities) -> LRRows]
    /\ score \in [1..Len(connectivities) -> ScorePairs]
    /\ n_iter \in 0..MaxIter
    /\ certainty_threshold \in -1..(TauDen + 1)
    /\ pc = "begin"
    /\ i = 0
    /\ proba_tier_0 = <<>>
    /\ lp_step_mtx = <<>>
    /\ certain = <<>>
    /\ certain_i = <<>>
    /\ pre = <<>>
    /\ hist = <<>>
    /\ warnings = 0
    /\ broke = FALSE
    /\ out_prediction = <<>>
    /\ out_proba = <<>>

\* lines 196-207: copy the classifier probabilities, set column 'certain'
Begin ==
    /\ pc = "begin"
    /\ proba_tier_0' = LR_proba
    /\ IF ValidQuantile(<<certainty_threshold, TauDen>>)
       THEN /\ certain' = CertainMask(<<certainty_threshold, TauDen>>)
            /\ pc' = IF n_iter > 0 THEN "mask" ELSE "assemble"
       ELSE /\ certain' = [c \in Cells |-> FALSE]
            /\ pc' = "error"
    /\ UNCHANGED <<inputs, i, lp_step_mtx, certain_i, pre, hist, warnings, broke,
                   out_prediction, out_proba>>

\* lines 210-216: column certain{i}, then overwrite the uncertain rows
Mask ==
    /\ pc = "mask"
    /\ certain_i' = Append(certain_i, CertainMask(ThresholdPct(i)))
    /\ proba_tier_0' = MaskRows(proba_tier_0, CertainMask(ThresholdPct(i)))
    /\ pc' = "propagate"
    /\ UNCHANGED <<inputs, i, lp_step_mtx, certain, pre, hist, warnings, broke,
                   out_prediction, out_proba>>

\* line 218
Propagate ==
    /\ pc = "propagate"
    /\ lp_step_mtx' = Dot(proba_tier_0)
    /\ pc' = "renormalize"
    /\ UNCHANGED <<inputs, i, proba_tier_0, certain, certain_i, pre, hist, warnings,
                   broke, out_prediction, out_proba>>

\* lines 219-220
Renormalize ==
    /\ pc = "renormalize"
    /\ lp_step_mtx' = RowDivide(lp_step_mtx)
    /\ proba_tier_0' = RowDivide(lp_step_mtx)
    /\ pc' = "monitor"
    /\ UNCHANGED <<inputs, i, certain, certain_i, pre, hist, warnings, broke,
                   out_prediction, out_proba>>

\* lines 222-228 and the loop head: an all-nan row makes idxmax either
\* return a missing label or raise, depending on the pandas release
Monitor ==
    /\ pc = "monitor"
    /\ \E raises \in BOOLEAN :
        /\ raises => HasNaNRow(proba_tier_0)
        /\ LET current == IdxMax(proba_tier_0) IN
           IF raises
           THEN /\ pc' = "error"
                /\ UNCHANGED <<i, pre, hist, warnings, broke>>
           ELSE IF MayStop(i) /\ DriftBelow(current, pre)
           THEN /\ pc' = "assemble"
                /\ broke' = TRUE
                /\ hist' = Append(hist, current)
                /\ UNCHANGED <<i, pre, warnings>>
           ELSE IF i = n_iter - 1 /\ pre = <<>>
           THEN /\ pc' = "error"
                /\ hist' = Append(hist, current)
                /\ UNCHANGED <<i, pre, warnings, broke>>
           ELSE /\ warnings' = IF i = n_iter - 1 THEN warnings + 1 ELSE warnings
                /\ pre' = current
                /\ hist' = Append(hist, current)
                /\ i' = IF i + 1 < n_iter THEN i + 1 ELSE i
                /\ pc' = IF i + 1 < n_iter THEN "mask" ELSE "assemble"
                /\ UNCHANGED broke
    /\ UNCHANGED <<inputs, proba_tier_0, lp_step_mtx, certain, certain_i,
                   out_prediction, out_proba>>

\* lines 231-241
Assemble ==
    /\ pc = "assemble"
    /\ \E raises \in BOOLEAN :
        /\ raises => HasNaNRow(proba_tier_0)
        /\ IF raises
           THEN /\ pc' = "error"
                /\ UNCHANGED <<out_prediction, out_proba>>
           ELSE /\ out_prediction' = IdxMax(proba_tier_0)
                /\ out_proba' = proba_tier_0
                /\ pc' = "done"
    /\ UNCHANGED <<inputs, i, proba_tier_0, lp_step_mtx, certain, certain_i, pre,
                   hist, warnings, broke>>

Next == Begin \/ Mask \/ Propagate \/ Renormalize \/ Monitor \/ Assemble

Spec == Init /\ [][Next]_vars

\* ------------------------------------------------------------------------
\* Properties
\* ------------------------------------------------------------------------

TauValid == ValidQuantile(<<certainty_threshold, TauDen>>)

\* every cell has at least one non-zero weight in its adjacency row
NonDegenerate == \A r \in Cells : \E j \in Cells : connectivities[r][j] # 0

\* the loop was left by break at the iteration whose assignment is hist[k]
StoppedAt(k) == broke /\ k = Len(hist)

RowEq(a, b) == RatEq(a[1], b[1]) /\ RatEq(a[2], b[2])

Half == Rat(1, 2)

\* a/b <= c/d for fractions with positive denominators
FracLeq(x, y) == x[1] * y[2] <= y[1] * x[2]

\* C1 as stated: the loop stops early at iteration k-1 exactly when
\* k-1 >= 4 and the drift of that iteration is below 0.001.
C1_StopsFromIteration4 ==
    \A k \in 1..Len(hist) :
        StoppedAt(k) <=> (k - 1 >= 4 /\ DriftBelow(hist[k], hist[k - 1]))

\* C1 (amended): the loop stops early at iteration k-1 exactly when
\* k-1 >= 5 and the drift of that iteration (fraction of cells whose argmax
\* differs from the previous iteration's) is below 0.001; iterations 0..4
\* never stop early; and when the loop stops at i, the matrix and the
\* assignment of iteration i are the final result.
C1_StopsFromIteration5 ==
    /\ \A k \in 1..Len(hist) :
        StoppedAt(k) <=> (k - 1 >= 5 /\ DriftBelow(hist[k], hist[k - 1]))
    /\ (broke /\ pc = "done") =>
        /\ Len(hist) = i + 1
        /\ out_proba = lp_step_mtx
        /\ out_prediction = hist[i + 1]

\* C1 witness: a finished run that had zero drift at iteration 4, went on,
\* and stopped by break at iteration 5 before the budget was used up.
C1_Witness ==
    /\ pc = "done"
    /\ broke
    /\ i = 5
    /\ n_iter > 6
    /\ DriftBelow(hist[5], hist[4])

\* C2 as stated: a finished run has printed exactly one warning when it ran
\* all n_iter iterations without break and the drift of the last iteration
\* is at or above 0.001, and no warning otherwise.
C2_WarningIffExhausted ==
    (pc = "done" /\ n_iter >= 2) =>
        warnings = IF ~broke /\ Len(hist) = n_iter
                      /\ ~DriftBelow(hist[n_iter], hist[n_iter - 1])
                   THEN 1 ELSE 0

\* C3 as stated: with a positive budget, a threshold in [0,1] and a
\* non-degenerate graph the run executes at most n_iter iterations, raises
\* no error, and a finished run has a probability matrix and an assignment.
C3_NoErrorForValidRun ==
    (n_iter >= 1 /\ TauValid /\ NonDegenerate) =>
        /\ pc # "error"
        /\ Len(hist) <= n_iter
        /\ pc = "done" => Len(out_proba) = NCells /\ Len(out_prediction) = NCells

RowSumsToOne(row) ==
    /\ RatEq(RatAdd(row[1], row[2]), RatOne)
    /\ \A col \in 1..2 : RatLeq(RatZero, row[col]) /\ RatLeq(row[col], RatOne)

\* C4: on a graph whose rows all have a non-zero weight, after the
\* renormalize step of every iteration and in the output columns, the two
\* class probabilities of every cell sum to 1 and lie in [0,1].
C4_RowsSumToOne ==
    NonDegenerate =>
        /\ pc \in {"monitor", "assemble"} => \A c \in Cells : RowSumsToOne(proba_tier_0[c])
        /\ pc = "done" => \A c \in Cells : RowSumsToOne(out_proba[c])

\* C4 witness: a finished run of at least two iterations on a non-degenerate
\* graph with an output row that the diffusion really mixed (neither the
\* classifier's row nor the even row of a masked cell).
C4_Witness ==
    /\ pc = "done"
    /\ NonDegenerate
    /\ Len(hist) >= 2
    /\ \E c \in Cells :
        /\ ~RowEq(out_proba[c], LR_proba[c])
        /\ ~RowEq(out_proba[c], <<LR_proba[c][2], LR_proba[c][1]>>)
        /\ ~RatEq(out_proba[c][1], Half)

\* C5: the per-iteration masks are nested (certain{k-1} is a subset of
\* certain{k}), the global 'certain' flag is a subset of every per-iteration
\* mask, and the per-iteration threshold never increases.
C5_MasksNested ==
    \A k \in 1..Len(certain_i) :
        /\ \A c \in Cells : certain[c] => certain_i[k][c]
        /\ k > 1 => \A c \in Cells : certain_i[k - 1][c] => certain_i[k][c]
        /\ k > 1 => FracLeq(ThresholdPct(k - 1), ThresholdPct(k - 2))

\* C5 witness: a later mask that admits a cell the previous one did not.
C5_Witness ==
    \E k \in 2..Len(certain_i) :
        \E c \in Cells : ~certain_i[k - 1][c] /\ certain_i[k][c]

\* C6 as stated: no row with undefined values (division by a zero row sum)
\* is left by the renormalize step, carried into the next iteration or
\* returned.
C6_NoUndefinedRow ==
    /\ pc \in {"monitor", "mask", "propagate"} => ~HasNaNRow(proba_tier_0)
    /\ pc = "done" => ~HasNaNRow(out_proba)

\* C7 as stated: with n_iter < 1 or a threshold outside [0,1] the run is
\* rejected before any computation: no column is added, no iteration runs
\* and no result is returned.
C7_InvalidConfigRejected ==
    (n_iter < 1 \/ ~TauValid) =>
        /\ pc \in {"begin", "error"}
        /\ certain = <<>>
        /\ certain_i = <<>>
        /\ hist = <<>>
        /\ out_proba = <<>>
        /\ out_prediction = <<>>

\* C8 as stated: the matrix entering the propagate step holds, for every
\* cell certain at this iteration, the initial classifier row, and for
\* every other cell the row (1e-6, 1e-6).
C8_MaskedFromClassifier ==
    pc = "propagate" =>
        \A c \in Cells :
            IF certain_i[i + 1][c]
            THEN RowEq(proba_tier_0[c], LR_proba[c])
            ELSE proba_tier_0[c] = EpsRow

\* C8 (amended): the matrix entering the propagate step of iteration i
\* holds, for every cell certain at iteration i, the row the previous
\* iteration's renormalize step left (the classifier row at i = 0), and for
\* every other cell the row (1e-6, 1e-6).
C8_MaskedFromPreviousStep ==
    pc = "propagate" =>
        \A c \in Cells :
            IF certain_i[i + 1][c]
            THEN proba_tier_0[c] = IF i = 0 THEN LR_proba[c] ELSE lp_step_mtx[c]
            ELSE proba_tier_0[c] = EpsRow

\* C8 witness: a propagate step of a later iteration entered with a trusted
\* row that differs from the classifier's row for that cell.
C8_Witness ==
    /\ pc = "propagate"
    /\ i >= 1
    /\ \E c \in Cells :
        /\ certain_i[i + 1][c]
        /\ ~RowIsNaN(proba_tier_0[c])
        /\ ~RowEq(proba_tier_0[c], LR_proba[c])

\* C9 as stated: with one cell and the 1x1 graph of weight 1, the cell's
\* probabilities after every iteration equal the classifier's, and so do
\* the returned probabilities and assignment.
C9_SingleCellNoOp ==
    connectivities = Graph1 =>
        /\ pc \in {"monitor", "assemble"} => RowEq(proba_tier_0[1], LR_proba[1])
        /\ pc = "done" =>
            /\ RowEq(out_proba[1], LR_proba[1])
            /\ out_prediction = IdxMax(LR_proba)

MinConfidence(c) == \A other \in Cells : absdif[c] <= absdif[other]

\* C10: in every iteration the cells holding the minimum confidence score
\* are not certain, and their rows enter the propagate step as (1e-6, 1e-6);
\* so no mask trusts all cells.
C10_MinimumAlwaysMasked ==
    /\ \A k \in 1..Len(certain_i) :
        \A c \in Cells : MinConfidence(c) => ~certain_i[k][c]
    /\ pc = "propagate" =>
        \A c \in Cells : MinConfidence(c) => proba_tier_0[c] = EpsRow

\* C10 witness: the last iteration of a run (threshold 0) entering the
\* propagate step with some cell trusted and the minimum cell masked.
C10_Witness ==
    /\ pc = "propagate"
    /\ n_iter >= 2
    /\ i = n_iter - 1
    /\ ThresholdPct(i)[1] = 0
    /\ \E c \in Cells : certain_i[i + 1][c]
    /\ \E c \in Cells : MinConfidence(c) /\ proba_tier_0[c] = EpsRow

====
